---- MODULE Spec2Model ----
(***************************************************************************)
(* Request execution engine of the HTTP request builder.                   *)
(*                                                                         *)
(* The module models Builder.response() of src/index.ts (the variant with  *)
(* retry, backoff and failure classification): the recursive run() frames, *)
(* the signal composer mergeAbortSignals, the retry decision               *)
(* shouldRetryRequest, the backoff computation with the Retry-After        *)
(* override, and the classifier Builder.#handleError.                      *)
(***************************************************************************)
EXTENDS Integers, Sequences, FiniteSets, TLC

(***************************************************************************)
(* Bounds of the model                                                     *)
(***************************************************************************)
\* largest value given to the retry option
MaxRetry == 3

(***************************************************************************)
(* Program constants                                                       *)
(***************************************************************************)
MIN_RETRY_DELAY == 200
MAX_RETRY_DELAY == 10000
RETRY_CODE_LIST == {408, 409, 425, 429, 500, 502, 503, 504}
\* defaults of the destructuring at the head of run()
DefaultRetry == 0
DefaultRetryDelay == 500

(***************************************************************************)
(* Inputs                                                                  *)
(***************************************************************************)
Methods == {"GET", "POST", "PUT", "PATCH", "DELETE"}
\* values given to the retryDelay option
RetryDelays == {0, 100, 6000}
\* texts of a Retry-After header, as sequences of characters
RetryAfterTexts ==
  { <<"5">>, <<"1", "2">>, <<"5", "x">>, <<"W", "e", "d">>, <<"-", "1">>, <<>> }

\* an object with at most the one property k, one per value in vals
Pick(k, vals) == {<<>>} \cup {[x \in {k} |-> v] : v \in vals}

\* a destructuring read with a default: { k = d } = o
Get(o, k, d) == IF k \in DOMAIN o THEN o[k] ELSE d

\* the option objects a Builder can hold when response() is called
OptionValues ==
  { a @@ b @@ c @@ d :
      a \in Pick("retry", 0..MaxRetry),
      b \in Pick("retryDelay", RetryDelays),
      c \in Pick("beforeSend", {TRUE}),
      d \in Pick("onResponse", {TRUE}) }

\* what the transport answers with: a success, a status that is not
\* retryable and a retryable one without a Retry-After header, and a
\* retryable status with each Retry-After text
TransportResponses ==
  { [status |-> st, headers |-> <<>>] : st \in {200, 404, 503} }
  \cup { [status |-> 429, headers |-> h] :
           h \in Pick("Retry-After", RetryAfterTexts) \ {<<>>} }

(***************************************************************************)
(* Values: responses and errors                                            *)
(***************************************************************************)
NoResponse == [status |-> 0, headers |-> <<>>, attempt |-> 0]

\* Response.ok with the lower bound excluded
Ok_exclusive(response) == response.status > 200 /\ response.status <= 299

\* Response.ok
Ok(response) == response.status >= 200 /\ response.status <= 299

\* Headers.get: null when the header is absent
HeadersGet(headers, name) ==
  IF name \in DOMAIN headers
    THEN [null |-> FALSE, text |-> headers[name]]
    ELSE [null |-> TRUE, text |-> <<>>]

\* truthiness of a string-or-null value: null and "" are falsy
Truthy(v) == ~v.null /\ v.text # <<>>

\* a thrown value: its class, its name property, whether it is an Error,
\* the response a ServerError carries, and its text (the message of an
\* error, the characters of a string) as a sequence of fragments
Thrown(cls, name, isError) ==
  [cls |-> cls, name |-> name, isError |-> isError, response |-> NoResponse,
   text |-> <<>>]

\* the same value with a text
WithText(value, text) == [value EXCEPT !.text = text]

\* String.prototype.includes for a one-fragment needle
includes(text, needle) == \E i \in 1..Len(text) : text[i] = needle[1]

NoError == Thrown("none", "", FALSE)

\* the default reason of AbortController.abort()
DOMAbortError == Thrown("DOMException", "AbortError", TRUE)
\* the reason of a signal made by AbortSignal.timeout()
DOMTimeoutError == Thrown("DOMException", "TimeoutError", TRUE)

\* the classes of src/index.ts:660-702 leave name inherited from Error
ServerError(response) ==
  [cls |-> "ServerError", name |-> "Error", isError |-> TRUE,
   response |-> response, text |-> <<>>]
AbortError == Thrown("AbortError", "Error", TRUE)
NetworkError == Thrown("NetworkError", "Error", TRUE)
TimeoutError == Thrown("TimeoutError", "Error", TRUE)
UnknownError == Thrown("UnknownError", "Error", TRUE)

\* the text tryRequest's timeoutController aborts with
TIMEOUT_MESSAGE == <<"Request timed out">>
\* a string thrown or given as an abort reason
String(text) == WithText(Thrown("string", "", FALSE), text)

\* what a hook throws when it fails
HookError == Thrown("Error", "Error", TRUE)

\* causes the transport rejects with on its own (no signal involved)
TransportCauses ==
  { Thrown("TypeError", "TypeError", TRUE),
    Thrown("DOMException", "NetworkError", TRUE),
    Thrown("Error", "ConnectionRefused", TRUE),
    Thrown("Error", "Error", TRUE),
    Thrown("string", "", FALSE) }

\* the failure kind of the specification a thrown value stands for
KindOf(e) ==
  CASE e.cls = "ServerError" -> "ServerFailure"
    [] e.cls = "AbortError" -> "AbortFailure"
    [] e.cls = "TimeoutError" -> "TimeoutFailure"
    [] e.cls = "NetworkError" -> "NetworkFailure"
    [] e.cls = "UnknownError" -> "UnknownFailure"
    [] OTHER -> "Unclassified"

(***************************************************************************)
(* Builder.#handleError                                                    *)
(***************************************************************************)
\* the classifier without the pass-through of ServerError
handleError_noPassThrough(error) ==
  IF error.isError /\ error.name = "AbortError" THEN AbortError
  ELSE IF error.isError
          /\ error.name \in {"NetworkError", "ConnectionRefused", "TypeError"}
    THEN NetworkError
  ELSE IF error.isError /\ error.name = "TimeoutError" THEN TimeoutError
  ELSE UnknownError

handleError(error) ==
  IF error.cls = "ServerError" THEN error
  ELSE IF error.isError /\ error.name = "AbortError" THEN AbortError
  ELSE IF error.isError
          /\ error.name \in {"NetworkError", "ConnectionRefused", "TypeError"}
    THEN NetworkError
  ELSE IF error.isError /\ error.name = "TimeoutError" THEN TimeoutError
  ELSE UnknownError

\* an error thrown inside `frames` nested try blocks of run(): every
\* enclosing frame awaits the inner run() inside its own try, so its catch
\* classifies the error again
RECURSIVE Unwind(_, _)
Unwind(error, frames) ==
  IF frames = 0 THEN error ELSE Unwind(handleError(error), frames - 1)

(***************************************************************************)
(* parseInt(text, 10) as the engine uses it on the Retry-After header      *)
(***************************************************************************)
Digits == {"0", "1", "2", "3", "4", "5", "6", "7", "8", "9"}

DigitValue(c) ==
  CASE c = "0" -> 0 [] c = "1" -> 1 [] c = "2" -> 2 [] c = "3" -> 3
    [] c = "4" -> 4 [] c = "5" -> 5 [] c = "6" -> 6 [] c = "7" -> 7
    [] c = "8" -> 8 [] c = "9" -> 9

RECURSIVE TrimStart(_)
TrimStart(text) ==
  IF text # <<>> /\ Head(text) \in {" ", "\t"}
    THEN TrimStart(Tail(text)) ELSE text

\* the longest prefix of text made of digits
RECURSIVE DigitPrefix(_)
DigitPrefix(text) ==
  IF text # <<>> /\ Head(text) \in Digits
    THEN <<Head(text)>> \o DigitPrefix(Tail(text)) ELSE <<>>

RECURSIVE DecimalValue(_, _)
DecimalValue(digits, acc) ==
  IF digits = <<>> THEN acc
  ELSE DecimalValue(Tail(digits), 10 * acc + DigitValue(Head(digits)))

NaN == [nan |-> TRUE, value |-> 0]

\* leading white space is skipped, one sign is read, then digits up to the
\* first character that is not a digit; NaN when there is no digit
parseInt(text) ==
  LET t == TrimStart(text)
      signed == t # <<>> /\ Head(t) \in {"+", "-"}
      sign == IF t # <<>> /\ Head(t) = "-" THEN -1 ELSE 1
      body == IF signed THEN Tail(t) ELSE t
      digits == DigitPrefix(body)
  IN IF digits = <<>> THEN NaN
     ELSE [nan |-> FALSE, value |-> sign * DecimalValue(digits, 0)]

isNaN(n) == n.nan

Max(a, b) == IF a >= b THEN a ELSE b
Min(a, b) == IF a <= b THEN a ELSE b

(***************************************************************************)
(* The retry decision and the backoff of Builder.response                  *)
(***************************************************************************)
\* the retry decision with the attempt bound off by one
shouldRetryRequest_inclusive(method, response, currentAttempt, maxAttempts) ==
  /\ currentAttempt <= maxAttempts
  /\ method = "GET"
  /\ response.status \in RETRY_CODE_LIST

\* the retry decision without the method test
shouldRetryRequest_anyMethod(method, response, currentAttempt, maxAttempts) ==
  /\ currentAttempt < maxAttempts
  /\ response.status \in RETRY_CODE_LIST

\* the retry decision without the status test
shouldRetryRequest_anyStatus(method, response, currentAttempt, maxAttempts) ==
  /\ currentAttempt < maxAttempts
  /\ method = "GET"

shouldRetryRequest(method, response, currentAttempt, maxAttempts) ==
  /\ currentAttempt < maxAttempts
  /\ method = "GET"
  /\ response.status \in RETRY_CODE_LIST

\* the backoff with the exponent of tryRequest: 2 ** currentAttempt
exponentialDelay_late(retryDelay, currentAttempt) ==
  retryDelay * 2 ^ currentAttempt

\* retryDelay * 2 ** (currentAttempt - 1), before Retry-After and the clamp
exponentialDelay(retryDelay, currentAttempt) ==
  retryDelay * 2 ^ (currentAttempt - 1)

\* the Retry-After override replacing the backoff instead of bounding it
retryAfterDelay_replace(response, backoff) ==
  LET retryAfter == HeadersGet(response.headers, "Retry-After")
      retryAfterSeconds == parseInt(retryAfter.text)
  IN IF Truthy(retryAfter) /\ ~isNaN(retryAfterSeconds)
       THEN retryAfterSeconds.value * 1000
       ELSE backoff

\* the Retry-After override: the larger of the header, in ms, and the backoff
retryAfterDelay(response, backoff) ==
  LET retryAfter == HeadersGet(response.headers, "Retry-After")
      retryAfterSeconds == parseInt(retryAfter.text)
  IN IF Truthy(retryAfter) /\ ~isNaN(retryAfterSeconds)
       THEN Max(retryAfterSeconds.value * 1000, backoff)
       ELSE backoff

\* the clamp without its lower bound
clampDelay_noMin(ms) == Min(MAX_RETRY_DELAY, ms)

clampDelay(ms) == Min(MAX_RETRY_DELAY, Max(MIN_RETRY_DELAY, ms))

\* the delay awaited before the next attempt
backoffDelay(retryDelay, currentAttempt, response) ==
  clampDelay(retryAfterDelay(response,
                             exponentialDelay(retryDelay, currentAttempt)))

(***************************************************************************)
(* mergeAbortSignals                                                       *)
(***************************************************************************)
Sources == {"timeout", "user"}

\* a signal: whether it exists, whether it has fired, and its reason
Signal(present, aborted, reason) ==
  [present |-> present, aborted |-> aborted, reason |-> reason]

\* The result: the state of the merged signal on return and the sources
\* onAbort was attached to.  controller.abort() is called without a reason,
\* so the merged signal's reason is always the default one.
mergeAbortSignals(timeoutSignal, userSignal) ==
  LET userFired == userSignal.present /\ userSignal.aborted
      fired == timeoutSignal.aborted \/ userFired
  IN [aborted |-> fired,
      reason |-> IF fired THEN DOMAbortError ELSE NoError,
      attached |->
        (IF timeoutSignal.aborted THEN {} ELSE {"timeout"})
        \cup (IF userSignal.present /\ ~userSignal.aborted
                THEN {"user"} ELSE {})]

(***************************************************************************)
(* mergeSignals                                                            *)
(***************************************************************************)
\* the array tryRequest passes: the timeout signal, then the caller's
availableSignals(timeoutSignal, userSignal) ==
  <<[source |-> "timeout", signal |-> timeoutSignal]>>
  \o (IF userSignal.present
        THEN <<[source |-> "user", signal |-> userSignal]>>
        ELSE <<>>)

\* cleanup without its removeEventListener calls
cleanup_keepsListeners(attached) == attached

\* cleanup: onAbort is removed from every source
cleanup(attached) == attached \ Sources

\* the loop over the signals: a fired one aborts the controller with its
\* reason (abort() on a fired controller changes nothing), an unfired one
\* gets onAbort attached
RECURSIVE mergeSignalsLoop(_, _, _)
mergeSignalsLoop(signals, i, acc) ==
  IF i > Len(signals) THEN acc
  ELSE LET s == signals[i]
       IN mergeSignalsLoop(signals, i + 1,
            IF s.signal.aborted
              THEN IF acc.aborted THEN acc
                   ELSE [acc EXCEPT !.aborted = TRUE,
                                    !.reason = s.signal.reason]
              ELSE [acc EXCEPT !.attached = @ \cup {s.source}])

\* The result, in the shape of mergeAbortSignals' result: a controller that
\* fired during the loop runs cleanup() before the signal is returned.
mergeSignals(signals) ==
  LET looped == mergeSignalsLoop(signals, 1,
                  [aborted |-> FALSE, reason |-> NoError, attached |-> {}])
  IN IF looped.aborted
       THEN [looped EXCEPT !.attached = cleanup(@)]
       ELSE looped

(***************************************************************************)
(* State of one Builder and of one call of Builder.response()              *)
(***************************************************************************)
VARIABLES
  method,          \* Builder.#method
  options,         \* Builder.#options
  userSignal,      \* Builder.#signal and the state of that signal
  pc,              \* where the call is: idle, beforeSend, fetching,
                   \* delaying, settled
  currentAttempt,  \* currentAttempt of the innermost run() frame
  frame,           \* the locals the innermost frame destructured
  merged,          \* merged[a]: the signal mergeAbortSignals gave attempt a
  fired,           \* history: the source that fired the signal of the
                   \* current attempt, and where the call was at that time
  timers,          \* attempts whose AbortSignal.timeout has not fired yet
  listeners,       \* <<source, a>>: onAbort of attempt a is attached
  calls,           \* the transport calls made, one record per call: what
                   \* beforeSend did before it, the status and Retry-After
                   \* presence of its response, what onResponse did, the
                   \* cause it rejected with
  response,        \* the local `response` of the innermost run() frame
  delays,          \* the backoff delays awaited, in order
  policy,          \* history: retry and retryDelay as run(1) read them
  outcome          \* what the promise of response() settled with

builderVars ==
  <<method, options, userSignal, pc, currentAttempt, frame, merged, fired,
    timers, listeners, calls, response, delays, policy, outcome>>

\* State of one call of a signal composer taken on its own, and of
\* Builder.#handleError taken on its own
VARIABLES
  handled,         \* a thrown value followed by what #handleError returned
                   \* for it, and for what it returned
  mergeFn,         \* the composer called: mergeAbortSignals or mergeSignals
  signals,         \* signals[s]: the source signal s handed to the composer
  mergePc,         \* inputs: not called yet; returned: the signal is out
  controller,      \* aborted and reason of controller.signal
  onAbort,         \* the sources onAbort is attached to
  trace            \* history: the sources in the order they fired, how many
                   \* had fired when the composer was called, the abort
                   \* events of controller.signal and the reason of the
                   \* first one, the runs of cleanup

\* State of one HttpClient and of the builders made from it
VARIABLES
  client,          \* the HttpClient: its class, the reference held in
                   \* #options and, as history, the options it was given
  heap,            \* heap[ref]: the properties of the option object ref
  builders,        \* the builders made, in order: method, url, headers, the
                   \* reference to the builder's option object and, as
                   \* history, the path given and the options the builder
                   \* was made with, updated by its own setters
  path,            \* the path segments #pathname is called with
  pathname         \* what #pathname returned

clientVars == <<client, heap, builders, path, pathname>>

mergeVars == <<handled, mergeFn, signals, mergePc, controller, onAbort, trace>>

composerVars == <<mergeVars, clientVars>>

vars == <<builderVars, composerVars>>

Pending == [state |-> "pending", response |-> NoResponse, error |-> NoError]
Fulfilled(r) == [state |-> "fulfilled", response |-> r, error |-> NoError]
Rejected(e) == [state |-> "rejected", response |-> NoResponse, error |-> e]

NotFired == [by |-> "none", at |-> "none"]

NoPolicy == [retry |-> 0, retryDelay |-> 0]

NoFrame ==
  [retry |-> 0, retryDelay |-> 0, beforeSend |-> FALSE, onResponse |-> FALSE]

\* reasons the caller aborts with
UserReasons == {DOMAbortError}

MergeFns == {"mergeAbortSignals", "mergeSignals"}

NoTrace ==
  [order |-> <<>>, composedAt |-> 0, events |-> 0, reason |-> NoError,
   cleanups |-> 0]

\* #pathname has not returned
NotComputed == <<"not computed">>

\* the client variables while no client is looked at
NoClientCall ==
  /\ client = [class |-> "none", options |-> 0, given |-> <<>>]
  /\ heap = <<>>
  /\ builders = <<>>
  /\ path = <<>>
  /\ pathname = NotComputed

\* the composer variables while no composer is looked at on its own
NoComposerCall ==
  /\ NoClientCall
  /\ handled = <<>>
  /\ mergeFn = "mergeAbortSignals"
  /\ signals = [s \in Sources |-> Signal(s = "timeout", FALSE, NoError)]
  /\ mergePc = "inputs"
  /\ controller = [aborted |-> FALSE, reason |-> NoError]
  /\ onAbort = {}
  /\ trace = NoTrace

Init ==
  /\ method \in Methods
  /\ options \in OptionValues
  /\ userSignal \in {Signal(p, FALSE, NoError) : p \in BOOLEAN}
  /\ pc = "idle"
  /\ currentAttempt = 0
  /\ frame = NoFrame
  /\ merged = <<>>
  /\ fired = NotFired
  /\ timers = {}
  /\ listeners = {}
  /\ calls = <<>>
  /\ response = NoResponse
  /\ delays = <<>>
  /\ policy = NoPolicy
  /\ outcome = Pending
  /\ NoComposerCall

(***************************************************************************)
(* Signals firing                                                          *)
(***************************************************************************)
\* The abort event of a source reaches the onAbort listeners attached to it:
\* each calls abort() on its own controller; a controller that had not fired
\* fires with the default reason and runs the cleanup listener, which
\* detaches onAbort of that attempt from both sources.
Dispatch(source, attached) ==
  LET firing == {a \in DOMAIN merged : a \in attached /\ ~merged[a].aborted}
  IN /\ merged' = [a \in DOMAIN merged |->
                     IF a \in firing
                       THEN [aborted |-> TRUE, reason |-> DOMAbortError]
                       ELSE merged[a]]
     /\ fired' = IF currentAttempt \in firing /\ pc \in {"beforeSend", "fetching"}
                   THEN [by |-> source, at |-> pc]
                   ELSE fired
     /\ listeners' = listeners \ {<<s, a>> : s \in Sources, a \in firing}

\* the caller fires its signal
UserAbort(reason) ==
  /\ userSignal.present
  /\ ~userSignal.aborted
  /\ userSignal' = Signal(TRUE, TRUE, reason)
  /\ Dispatch("user", {a \in DOMAIN merged : <<"user", a>> \in listeners})
  /\ UNCHANGED composerVars
  /\ UNCHANGED policy
  /\ UNCHANGED <<method, options, pc, currentAttempt, frame, timers, calls,
                 response, delays, outcome>>

\* the timer of AbortSignal.timeout(timeout) of attempt a expires; the
\* attempts of one call all use the same timeout, so their timers expire
\* in the order they were armed.  A timer is a task of its own: it cannot
\* run inside `await beforeSend?.(request)` when there is no hook to wait for.
TimeoutFires(a) ==
  /\ a \in timers
  /\ \A b \in timers : a <= b
  /\ pc = "beforeSend" => frame.beforeSend
  /\ timers' = timers \ {a}
  /\ Dispatch("timeout", {b \in {a} : <<"timeout", b>> \in listeners})
  /\ UNCHANGED composerVars
  /\ UNCHANGED policy
  /\ UNCHANGED <<method, options, userSignal, pc, currentAttempt, frame, calls,
                 response, delays, outcome>>

(***************************************************************************)
(* Builder.response                                                        *)
(***************************************************************************)
\* run(k) up to its first await: the options are destructured, the timeout
\* signal is made and merged with the caller's, the request is built
run(k) ==
  LET signal == mergeAbortSignals(Signal(TRUE, FALSE, NoError), userSignal)
  IN /\ currentAttempt' = k
     /\ frame' = [retry |-> Get(options, "retry", DefaultRetry),
                  retryDelay |-> Get(options, "retryDelay", DefaultRetryDelay),
                  beforeSend |-> "beforeSend" \in DOMAIN options,
                  onResponse |-> "onResponse" \in DOMAIN options]
     /\ timers' = timers \cup {k}
     /\ merged' = Append(merged, [aborted |-> signal.aborted,
                                  reason |-> signal.reason])
     /\ fired' = IF signal.aborted THEN [by |-> "user", at |-> "compose"]
                                   ELSE NotFired
     /\ listeners' = listeners \cup {<<s, k>> : s \in signal.attached}
     /\ response' = NoResponse
     /\ pc' = "beforeSend"

\* the promise of response() rejects with an error thrown in the innermost
\* frame, after `frames` catch blocks have handled it
Throw(error, frames) ==
  /\ outcome' = Rejected(Unwind(error, frames))
  /\ pc' = "settled"

\* response() is called
Response ==
  /\ pc = "idle"
  /\ run(1)
  /\ policy' = [retry |-> Get(options, "retry", DefaultRetry),
                retryDelay |-> Get(options, "retryDelay", DefaultRetryDelay)]
  /\ UNCHANGED composerVars
  /\ UNCHANGED <<method, options, userSignal, calls, delays, outcome>>

\* beforeSend called for the first attempt only
beforeSendCall_firstOnly ==
  IF frame.beforeSend /\ currentAttempt = 1 THEN "returned" ELSE "no"

\* await beforeSend?.(request) of the current attempt, once it is over:
\* "no" when there is no hook
beforeSendCall == IF frame.beforeSend THEN "returned" ELSE "no"

\* beforeSend has returned, or there is none: the transport is called
SendRequest ==
  /\ pc = "beforeSend"
  /\ calls' = Append(calls, [status |-> 0, retryAfter |-> FALSE,
                             beforeSend |-> beforeSendCall,
                             onResponse |-> "no", cause |-> NoError])
  /\ pc' = "fetching"
  /\ UNCHANGED composerVars
  /\ UNCHANGED policy
  /\ UNCHANGED <<method, options, userSignal, currentAttempt, frame, merged,
                 fired, timers, listeners, response, delays, outcome>>

\* beforeSend throws or rejects: the await is outside the try of its frame
BeforeSendThrows ==
  /\ pc = "beforeSend"
  /\ frame.beforeSend
  /\ Throw(HookError, currentAttempt - 1)
  /\ UNCHANGED composerVars
  /\ UNCHANGED policy
  /\ UNCHANGED <<method, options, userSignal, currentAttempt, frame, merged,
                 fired, timers, listeners, calls, response, delays>>

\* onResponse called only with a response whose status is ok
onResponseCall_okOnly(r, hookThrows) ==
  IF ~frame.onResponse \/ ~Ok(r) THEN "no"
  ELSE IF hookThrows THEN "threw" ELSE "returned"

\* onResponse?.(response): what the hook did with response r, "no" when
\* there is no hook
onResponseCall(r, hookThrows) ==
  IF ~frame.onResponse THEN "no"
  ELSE IF hookThrows THEN "threw" ELSE "returned"

\* the transport resolves with a response
FetchResolves(answer, hookThrows) ==
  LET r == [status |-> answer.status, headers |-> answer.headers,
            attempt |-> currentAttempt]
      n == Len(calls)
      hook == onResponseCall(r, hookThrows)
  IN /\ pc = "fetching"
     /\ ~merged[currentAttempt].aborted
     /\ hookThrows => frame.onResponse
     /\ calls' = [calls EXCEPT ![n].status = r.status,
                               ![n].retryAfter = "Retry-After" \in DOMAIN r.headers,
                               ![n].onResponse = hook]
     /\ response' = r
     /\ IF hookThrows
          THEN Throw(HookError, currentAttempt) /\ UNCHANGED delays
        ELSE IF Ok(r)
          THEN /\ outcome' = Fulfilled(r)
               /\ pc' = "settled"
               /\ UNCHANGED delays
        ELSE IF ~shouldRetryRequest(method, r, currentAttempt, frame.retry)
          THEN Throw(ServerError(r), currentAttempt) /\ UNCHANGED delays
        ELSE /\ delays' = Append(delays, backoffDelay(frame.retryDelay,
                                                      currentAttempt, r))
             /\ pc' = "delaying"
             /\ UNCHANGED outcome
     /\ UNCHANGED composerVars
     /\ UNCHANGED policy
     /\ UNCHANGED <<method, options, userSignal, currentAttempt, frame, merged,
                    fired, timers, listeners>>

\* the transport rejects on its own
FetchRejects(cause) ==
  /\ pc = "fetching"
  /\ ~merged[currentAttempt].aborted
  /\ Throw(cause, currentAttempt)
  /\ calls' = [calls EXCEPT ![Len(calls)].cause = cause]
  /\ UNCHANGED composerVars
  /\ UNCHANGED policy
  /\ UNCHANGED <<method, options, userSignal, currentAttempt, frame, merged,
                 fired, timers, listeners, response, delays>>

\* the signal of the request has fired: the transport rejects with its reason
FetchAborted ==
  /\ pc = "fetching"
  /\ merged[currentAttempt].aborted
  /\ Throw(merged[currentAttempt].reason, currentAttempt)
  /\ calls' = [calls EXCEPT ![Len(calls)].cause = merged[currentAttempt].reason]
  /\ UNCHANGED composerVars
  /\ UNCHANGED policy
  /\ UNCHANGED <<method, options, userSignal, currentAttempt, frame, merged,
                 fired, timers, listeners, response, delays>>

\* the next attempt entered without awaiting the transport call
DelayElapsed_notAwaited ==
  /\ pc \in {"fetching", "delaying"}
  /\ currentAttempt <= MaxRetry
  /\ run(currentAttempt + 1)
  /\ UNCHANGED composerVars
  /\ UNCHANGED policy
  /\ UNCHANGED <<method, options, userSignal, calls, delays, outcome>>

\* the backoff delay has elapsed: run(currentAttempt + 1)
DelayElapsed ==
  /\ pc = "delaying"
  /\ run(currentAttempt + 1)
  /\ UNCHANGED composerVars
  /\ UNCHANGED policy
  /\ UNCHANGED <<method, options, userSignal, calls, delays, outcome>>

\* Builder.retry(value) is called while response() is suspended in the
\* transport call or in the backoff delay: this.#options is mutated in place
SetRetry(value) ==
  /\ pc \in {"fetching", "delaying"}
  /\ options' = [x \in {"retry"} |-> value] @@ options
  /\ UNCHANGED composerVars
  /\ UNCHANGED <<method, userSignal, pc, currentAttempt, frame, merged, fired,
                 timers, listeners, calls, response, delays, policy, outcome>>

\* Builder.retryDelay(value) is called in the same way
SetRetryDelay(value) ==
  /\ pc \in {"fetching", "delaying"}
  /\ options' = [x \in {"retryDelay"} |-> value] @@ options
  /\ UNCHANGED composerVars
  /\ UNCHANGED <<method, userSignal, pc, currentAttempt, frame, merged, fired,
                 timers, listeners, calls, response, delays, policy, outcome>>

(***************************************************************************)
(* tryRequest, the Result-returning engine.  Its state is kept in the      *)
(* variables of the Builder: options is the context, frame the locals the  *)
(* innermost call destructured, outcome the Result the promise resolves    *)
(* with.                                                                   *)
(***************************************************************************)
\* defaults of the destructuring at the head of tryRequest
DefaultRetries == 1
DefaultContextRetryDelay == 1000

\* the contexts tryRequest is called with
ContextValues ==
  { a @@ b : a \in Pick("retries", 0..MaxRetry),
             b \in Pick("retryDelay", RetryDelays) }

FAILED_TO_FETCH == <<"Failed to fetch.">>

\* causes the transport rejects with on its own
ContextCauses ==
  { WithText(Thrown("TypeError", "TypeError", TRUE), FAILED_TO_FETCH),
    WithText(Thrown("TypeError", "TypeError", TRUE), <<"Load failed">>),
    Thrown("Error", "Error", TRUE) }

\* reasons the caller aborts with: abort()'s default, and strings
ContextUserReasons ==
  { DOMAbortError, String(<<"cancelled">>), String(TIMEOUT_MESSAGE) }

\* the Result values
success(value) == [state |-> "success", response |-> value, error |-> NoError]
failure(reason) ==
  [state |-> "failure", response |-> NoResponse, error |-> reason]
clientError(message) ==
  WithText(Thrown("CLIENT_ERROR", "", FALSE), message)
serverError(res) ==
  [Thrown("SERVER_ERROR", "", FALSE) EXCEPT !.response = res]

\* the delay before the next attempt
contextDelay(retryDelay, attempt) == retryDelay * 2 ^ attempt

\* a catch block that throws again what it does not recognise
catch_rethrow(err, attempt, retries) ==
  LET again == [retry |-> TRUE, result |-> Pending]
      return(message) ==
        [retry |-> FALSE, result |-> failure(clientError(message))]
  IN IF err.cls = "string"
       THEN IF includes(err.text, TIMEOUT_MESSAGE)
              THEN IF attempt < retries THEN again
                   ELSE return(TIMEOUT_MESSAGE)
              ELSE return(<<"Request was aborted: ">> \o err.text)
     ELSE IF err.cls = "DOMException" /\ err.name = "AbortError"
       THEN return(err.text)
     ELSE IF err.cls = "TypeError" /\ includes(err.text, FAILED_TO_FETCH)
       THEN IF attempt < retries THEN again
            ELSE return(<<"Network error.">>)
     ELSE [retry |-> FALSE, result |-> Rejected(err)]

\* The catch block: whether the request is tried again and, if not, the
\* Result returned.
catch(err, attempt, retries) ==
  LET again == [retry |-> TRUE, result |-> Pending]
      return(message) ==
        [retry |-> FALSE, result |-> failure(clientError(message))]
  IN IF err.cls = "string"
       THEN IF includes(err.text, TIMEOUT_MESSAGE)
              THEN IF attempt < retries THEN again
                   ELSE return(TIMEOUT_MESSAGE)
              ELSE return(<<"Request was aborted: ">> \o err.text)
     ELSE IF err.cls = "DOMException" /\ err.name = "AbortError"
       THEN return(err.text)
     ELSE IF err.cls = "TypeError" /\ includes(err.text, FAILED_TO_FETCH)
       THEN IF attempt < retries THEN again
            ELSE return(<<"Network error.">>)
     ELSE return(<<"Unknown error.">>)

InitContext ==
  /\ method = "GET"
  /\ options \in ContextValues
  /\ userSignal \in {Signal(p, FALSE, NoError) : p \in BOOLEAN}
  /\ pc = "idle"
  /\ currentAttempt = 0
  /\ frame = NoFrame
  /\ merged = <<>>
  /\ fired = NotFired
  /\ timers = {}
  /\ listeners = {}
  /\ calls = <<>>
  /\ response = NoResponse
  /\ delays = <<>>
  /\ policy = NoPolicy
  /\ outcome = Pending
  /\ NoComposerCall

\* The abort event of a source reaches the onAbort listeners mergeSignals
\* attached to it: each aborts its controller with the reason of the source;
\* a controller that had not fired fires and runs cleanup.
DispatchReason(source, attached, reason) ==
  LET firing == {a \in DOMAIN merged : a \in attached /\ ~merged[a].aborted}
  IN /\ merged' = [a \in DOMAIN merged |->
                     IF a \in firing
                       THEN [aborted |-> TRUE, reason |-> reason]
                       ELSE merged[a]]
     /\ fired' = IF currentAttempt \in firing /\ pc = "fetching"
                   THEN [by |-> source, at |-> pc]
                   ELSE fired
     /\ listeners' = listeners \ {<<s, a>> : s \in Sources, a \in firing}

\* the caller fires its signal
ContextUserAbort(reason) ==
  /\ userSignal.present
  /\ ~userSignal.aborted
  /\ userSignal' = Signal(TRUE, TRUE, reason)
  /\ DispatchReason("user", {a \in DOMAIN merged : <<"user", a>> \in listeners},
                    reason)
  /\ UNCHANGED composerVars
  /\ UNCHANGED <<method, options, pc, currentAttempt, frame, timers, calls,
                 response, delays, policy, outcome>>

\* the setTimeout callback of attempt a runs:
\* timeoutController.abort(TIMEOUT_MESSAGE); the timers have the same
\* duration and run in the order they were set
ContextTimeoutFires(a) ==
  /\ a \in timers
  /\ \A b \in timers : a <= b
  /\ timers' = timers \ {a}
  /\ DispatchReason("timeout", {b \in {a} : <<"timeout", b>> \in listeners},
                    String(TIMEOUT_MESSAGE))
  /\ UNCHANGED composerVars
  /\ UNCHANGED <<method, options, userSignal, pc, currentAttempt, frame, calls,
                 response, delays, policy, outcome>>

\* one timeoutController kept for all attempts: attempt k is handed the
\* signal of the attempt before it
timeoutControllerSignal_reused(k) ==
  IF k > 1 /\ (k - 1) \notin timers
    THEN Signal(TRUE, TRUE, String(TIMEOUT_MESSAGE))
    ELSE Signal(TRUE, FALSE, NoError)

\* the signal of the timeoutController attempt k makes: a new one
timeoutControllerSignal(k) == Signal(TRUE, FALSE, NoError)

\* tryRequest(context, k) up to its await: the context is destructured, the
\* timer is set, the signals are merged, the request is built and fetch is
\* called
tryRequest(k) ==
  LET signal == mergeSignals(availableSignals(timeoutControllerSignal(k),
                                              userSignal))
  IN /\ currentAttempt' = k
     /\ frame' = [retry |-> Get(options, "retries", DefaultRetries),
                  retryDelay |-> Get(options, "retryDelay",
                                     DefaultContextRetryDelay),
                  beforeSend |-> FALSE, onResponse |-> FALSE]
     /\ timers' = timers \cup {k}
     /\ merged' = Append(merged, [aborted |-> signal.aborted,
                                  reason |-> signal.reason])
     /\ fired' = IF signal.aborted THEN [by |-> "user", at |-> "compose"]
                                   ELSE NotFired
     /\ listeners' = listeners \cup {<<s, k>> : s \in signal.attached}
     /\ calls' = Append(calls, [status |-> 0, retryAfter |-> FALSE,
                                beforeSend |-> "no",
                                onResponse |-> "no", cause |-> NoError])
     /\ response' = NoResponse
     /\ pc' = "fetching"

\* the innermost call returns a Result: every enclosing call returns it in
\* turn, and the finally block of each clears its timer
ContextReturn(result) ==
  /\ outcome' = result
  /\ pc' = "settled"
  /\ timers' = {}

\* the catch block handles err
ContextCatch(err) ==
  LET c == catch(err, currentAttempt, frame.retry)
  IN /\ calls' = [calls EXCEPT ![Len(calls)].cause = err]
     /\ IF c.retry
          THEN /\ delays' = Append(delays, contextDelay(frame.retryDelay,
                                                        currentAttempt))
               /\ pc' = "delaying"
               /\ UNCHANGED <<outcome, timers>>
          ELSE ContextReturn(c.result) /\ UNCHANGED delays

\* tryRequest is called
TryRequest ==
  /\ pc = "idle"
  /\ tryRequest(1)
  /\ UNCHANGED composerVars
  /\ UNCHANGED <<method, options, userSignal, delays, policy, outcome>>

\* the transport resolves with a response
ContextFetchResolves(answer) ==
  LET r == [status |-> answer.status, headers |-> answer.headers,
            attempt |-> currentAttempt]
  IN /\ pc = "fetching"
     /\ ~merged[currentAttempt].aborted
     /\ calls' = [calls EXCEPT ![Len(calls)].status = r.status]
     /\ response' = r
     /\ ContextReturn(IF Ok(r) THEN success(r) ELSE failure(serverError(r)))
     /\ UNCHANGED composerVars
     /\ UNCHANGED <<method, options, userSignal, currentAttempt, frame, merged,
                    fired, listeners, delays, policy>>

\* the transport rejects on its own
ContextFetchRejects(cause) ==
  /\ pc = "fetching"
  /\ ~merged[currentAttempt].aborted
  /\ ContextCatch(cause)
  /\ UNCHANGED composerVars
  /\ UNCHANGED <<method, options, userSignal, currentAttempt, frame, merged,
                 fired, listeners, response, policy>>

\* the signal of the request has fired: the transport rejects with its reason
ContextFetchAborted ==
  /\ pc = "fetching"
  /\ merged[currentAttempt].aborted
  /\ ContextCatch(merged[currentAttempt].reason)
  /\ UNCHANGED composerVars
  /\ UNCHANGED <<method, options, userSignal, currentAttempt, frame, merged,
                 fired, listeners, response, policy>>

\* the delay has elapsed: tryRequest(context, currentAttempt + 1)
ContextDelayElapsed ==
  /\ pc = "delaying"
  /\ tryRequest(currentAttempt + 1)
  /\ UNCHANGED composerVars
  /\ UNCHANGED <<method, options, userSignal, delays, policy, outcome>>

NextContext ==
  \/ TryRequest
  \/ \E answer \in TransportResponses : ContextFetchResolves(answer)
  \/ \E cause \in ContextCauses : ContextFetchRejects(cause)
  \/ ContextFetchAborted
  \/ ContextDelayElapsed
  \/ \E reason \in ContextUserReasons : ContextUserAbort(reason)
  \/ \E a \in 1..(MaxRetry + 1) : ContextTimeoutFires(a)

SpecContext == InitContext /\ [][NextContext]_vars

TypeOKContext ==
  /\ options \in ContextValues
  /\ pc \in {"idle", "fetching", "delaying", "settled"}
  /\ currentAttempt \in 0..(MaxRetry + 1)
  /\ Len(merged) = currentAttempt
  /\ Len(calls) = currentAttempt
  /\ timers \subseteq 1..currentAttempt
  /\ listeners \subseteq Sources \X (1..currentAttempt)
  /\ outcome.state \in {"pending", "success", "failure"}
  /\ (pc = "settled") = (outcome.state # "pending")

(***************************************************************************)
(* A signal composer on its own: sources fire before and after the call    *)
(***************************************************************************)
\* an error of the caller's own
CallerError == Thrown("Error", "Error", TRUE)

\* the reasons a source fires with: those of AbortSignal.timeout() and of
\* tryRequest's timeoutController; for the caller's signal abort()'s
\* default, a value of the caller's, or AbortSignal.timeout()'s again
SourceReasons(s) ==
  IF s = "timeout" THEN {DOMTimeoutError, String(TIMEOUT_MESSAGE)}
                   ELSE {DOMAbortError, CallerError, DOMTimeoutError}

InitMerge ==
  /\ method = "GET"
  /\ options = CHOOSE o \in OptionValues : DOMAIN o = {}
  /\ userSignal = Signal(FALSE, FALSE, NoError)
  /\ pc = "idle"
  /\ currentAttempt = 0
  /\ frame = NoFrame
  /\ merged = <<>>
  /\ fired = NotFired
  /\ timers = {}
  /\ listeners = {}
  /\ calls = <<>>
  /\ response = NoResponse
  /\ delays = <<>>
  /\ policy = NoPolicy
  /\ outcome = Pending
  /\ NoClientCall
  /\ handled = <<>>
  /\ mergeFn \in MergeFns
  /\ signals \in {[s \in Sources |-> Signal(s = "timeout" \/ p, FALSE, NoError)]
                   : p \in BOOLEAN}
  /\ mergePc = "inputs"
  /\ controller = [aborted |-> FALSE, reason |-> NoError]
  /\ onAbort = {}
  /\ trace = NoTrace

\* the composer returns result m
Returned(m, cleanups) ==
  /\ mergePc = "inputs"
  /\ mergePc' = "returned"
  /\ controller' = [aborted |-> m.aborted, reason |-> m.reason]
  /\ onAbort' = m.attached
  /\ trace' = [trace EXCEPT !.composedAt = Len(trace.order),
                            !.events = IF m.aborted THEN 1 ELSE 0,
                            !.reason = m.reason,
                            !.cleanups = cleanups]
  /\ UNCHANGED <<handled, mergeFn, signals>>
  /\ UNCHANGED builderVars
  /\ UNCHANGED clientVars

\* mergeAbortSignals(timeoutSignal, userSignal): its cleanup listener is
\* added after the abort event of a controller fired on the way, and never
\* runs for it
MergeAbortSignalsCalled ==
  /\ mergeFn = "mergeAbortSignals"
  /\ Returned(mergeAbortSignals(signals["timeout"], signals["user"]), 0)

\* mergeSignals(availableSignals): cleanup() is called once if the
\* controller fired in the loop
MergeSignalsCalled ==
  /\ mergeFn = "mergeSignals"
  /\ LET m == mergeSignals(availableSignals(signals["timeout"],
                                            signals["user"]))
     IN Returned(m, IF m.aborted THEN 1 ELSE 0)

\* Source s fires with a reason.  If the composer has attached onAbort to s,
\* onAbort runs: mergeSignals attached it with {once: true} and passes
\* ev.target.reason on, mergeAbortSignals calls abort() without a reason.
\* abort() on a controller that has fired does nothing; otherwise the
\* controller fires and the abort event of its signal runs cleanup.
SourceAborts(s, reason) ==
  LET heard == mergePc = "returned" /\ s \in onAbort
      fires == heard /\ ~controller.aborted
      after == IF mergeFn = "mergeSignals" THEN onAbort \ {s} ELSE onAbort
      passed == IF mergeFn = "mergeSignals" THEN reason ELSE DOMAbortError
  IN /\ signals[s].present
     /\ ~signals[s].aborted
     /\ signals' = [signals EXCEPT ![s] = Signal(TRUE, TRUE, reason)]
     /\ controller' = IF fires THEN [aborted |-> TRUE, reason |-> passed]
                               ELSE controller
     /\ onAbort' = IF fires THEN cleanup(after)
                   ELSE IF heard THEN after
                   ELSE onAbort
     /\ trace' = [trace EXCEPT !.order = Append(@, s),
                               !.events = @ + (IF fires THEN 1 ELSE 0),
                               !.reason = IF fires THEN passed ELSE @,
                               !.cleanups = @ + (IF fires THEN 1 ELSE 0)]
     /\ UNCHANGED <<handled, mergeFn, mergePc>>
     /\ UNCHANGED builderVars
     /\ UNCHANGED clientVars

(***************************************************************************)
(* Builder.#handleError on its own                                         *)
(***************************************************************************)
\* how many values are kept: the cause and two results
MaxHandled == 3

\* the values a catch block can hand to #handleError: errors of the
\* platform under every name, values that are not errors, ServerErrors, and
\* the errors #handleError makes
ThrownValues ==
  { Thrown(cls, name, TRUE) :
      cls \in {"Error", "DOMException", "TypeError"},
      name \in {"Error", "AbortError", "TimeoutError", "NetworkError",
                "ConnectionRefused", "TypeError", "SyntaxError",
                "RangeError"} }
  \cup { Thrown(cls, name, FALSE) :
           cls \in {"string", "undefined", "object"},
           name \in {"", "AbortError"} }
  \cup { ServerError([status |-> st, headers |-> <<>>, attempt |-> 1]) :
           st \in {404, 500, 503} }
  \cup { AbortError, NetworkError, TimeoutError, UnknownError }

InitHandleError ==
  /\ method = "GET"
  /\ options = CHOOSE o \in OptionValues : DOMAIN o = {}
  /\ userSignal = Signal(FALSE, FALSE, NoError)
  /\ pc = "idle"
  /\ currentAttempt = 0
  /\ frame = NoFrame
  /\ merged = <<>>
  /\ fired = NotFired
  /\ timers = {}
  /\ listeners = {}
  /\ calls = <<>>
  /\ response = NoResponse
  /\ delays = <<>>
  /\ policy = NoPolicy
  /\ outcome = Pending
  /\ NoClientCall
  /\ handled \in {<<error>> : error \in ThrownValues}
  /\ mergeFn = "mergeAbortSignals"
  /\ signals = [s \in Sources |-> Signal(s = "timeout", FALSE, NoError)]
  /\ mergePc = "inputs"
  /\ controller = [aborted |-> FALSE, reason |-> NoError]
  /\ onAbort = {}
  /\ trace = NoTrace

\* #handleError is called with the last value
HandleError ==
  /\ Len(handled) < MaxHandled
  /\ handled' = Append(handled, handleError(handled[Len(handled)]))
  /\ UNCHANGED <<mergeFn, signals, mergePc, controller, onAbort, trace>>
  /\ UNCHANGED builderVars
  /\ UNCHANGED clientVars

SpecHandleError == InitHandleError /\ [][HandleError]_vars

Next ==
  \/ Response
  \/ SendRequest
  \/ BeforeSendThrows
  \/ \E answer \in TransportResponses, hookThrows \in BOOLEAN :
       FetchResolves(answer, hookThrows)
  \/ \E cause \in TransportCauses : FetchRejects(cause)
  \/ FetchAborted
  \/ DelayElapsed
  \/ \E reason \in UserReasons : UserAbort(reason)
  \/ \E a \in 1..(MaxRetry + 1) : TimeoutFires(a)

Spec == Init /\ [][Next]_vars

\* the steps of the call itself: the hooks return or throw, every transport
\* call resolves or rejects, every delay elapses
Progress ==
  \/ Response
  \/ SendRequest
  \/ BeforeSendThrows
  \/ \E answer \in TransportResponses, hookThrows \in BOOLEAN :
       FetchResolves(answer, hookThrows)
  \/ \E cause \in TransportCauses : FetchRejects(cause)
  \/ FetchAborted
  \/ DelayElapsed

\* response() is called and none of its awaits stays pending for ever
FairSpec == Spec /\ WF_vars(Progress)

\* the call of response() with the builder's setters called during it, for
\* a request without hooks and without a caller signal
NextSetters ==
  \/ Response
  \/ SendRequest
  \/ \E answer \in TransportResponses, hookThrows \in BOOLEAN :
       FetchResolves(answer, hookThrows)
  \/ \E cause \in TransportCauses : FetchRejects(cause)
  \/ FetchAborted
  \/ DelayElapsed
  \/ \E a \in 1..(MaxRetry + 1) : TimeoutFires(a)
  \/ \E value \in 0..MaxRetry : SetRetry(value)
  \/ \E value \in RetryDelays : SetRetryDelay(value)

\* a GET request without hooks and without a caller signal
InitSetters ==
  /\ Init
  /\ method = "GET"
  /\ DOMAIN options \subseteq {"retry", "retryDelay"}
  /\ ~userSignal.present

SpecSetters == InitSetters /\ [][NextSetters]_vars

NextMerge ==
  \/ MergeAbortSignalsCalled
  \/ MergeSignalsCalled
  \/ \E s \in Sources : \E reason \in SourceReasons(s) : SourceAborts(s, reason)

SpecMerge == InitMerge /\ [][NextMerge]_vars

TypeOKMerge ==
  /\ mergeFn \in MergeFns
  /\ mergePc \in {"inputs", "returned"}
  /\ \A s \in Sources :
       signals[s].aborted => signals[s].reason \in SourceReasons(s)
  /\ controller.aborted \in BOOLEAN
  /\ onAbort \subseteq Sources
  /\ trace.composedAt <= Len(trace.order)
  /\ Len(trace.order) <= 2

TypeOK ==
  /\ method \in Methods
  /\ options \in OptionValues
  /\ pc \in {"idle", "beforeSend", "fetching", "delaying", "settled"}
  /\ currentAttempt \in 0..(MaxRetry + 1)
  /\ Len(merged) = currentAttempt
  /\ timers \subseteq 1..currentAttempt
  /\ listeners \subseteq Sources \X (1..currentAttempt)
  /\ outcome.state \in {"pending", "fulfilled", "rejected"}
  /\ (pc = "settled") = (outcome.state # "pending")

(***************************************************************************)
(* Builder.response of src/mod.ts: one attempt, errors thrown as they are  *)
(***************************************************************************)
\* the option objects a Builder of src/mod.ts can hold
ModOptionValues == Pick("beforeSend", {TRUE})

\* new Error(`Server replied with status: ...`, { cause: response }); the
\* response field holds the cause
ErrorWithCause(res) == [Thrown("Error", "Error", TRUE) EXCEPT !.response = res]

InitMod ==
  /\ method \in Methods
  /\ options \in ModOptionValues
  /\ userSignal \in {Signal(p, FALSE, NoError) : p \in BOOLEAN}
  /\ pc = "idle"
  /\ currentAttempt = 0
  /\ frame = NoFrame
  /\ merged = <<>>
  /\ fired = NotFired
  /\ timers = {}
  /\ listeners = {}
  /\ calls = <<>>
  /\ response = NoResponse
  /\ delays = <<>>
  /\ policy = NoPolicy
  /\ outcome = Pending
  /\ NoComposerCall

\* response() up to its first await: the options are destructured, the
\* timeout signal is made and merged with the caller's, the request is built
ModResponse ==
  LET signal == mergeAbortSignals(Signal(TRUE, FALSE, NoError), userSignal)
  IN /\ pc = "idle"
     /\ currentAttempt' = 1
     /\ frame' = [NoFrame EXCEPT !.beforeSend = "beforeSend" \in DOMAIN options]
     /\ timers' = timers \cup {1}
     /\ merged' = Append(merged, [aborted |-> signal.aborted,
                                  reason |-> signal.reason])
     /\ fired' = IF signal.aborted THEN [by |-> "user", at |-> "compose"]
                                   ELSE NotFired
     /\ listeners' = listeners \cup {<<s, 1>> : s \in signal.attached}
     /\ pc' = "beforeSend"
     /\ UNCHANGED composerVars
     /\ UNCHANGED <<method, options, userSignal, calls, response, delays,
                    policy, outcome>>

\* beforeSend throws, or the promise it returned rejects: response()
\* rejects with that error
ModBeforeSendThrows ==
  /\ pc = "beforeSend"
  /\ frame.beforeSend
  /\ outcome' = Rejected(HookError)
  /\ pc' = "settled"
  /\ UNCHANGED composerVars
  /\ UNCHANGED <<method, options, userSignal, currentAttempt, frame, merged,
                 fired, timers, listeners, calls, response, delays, policy>>

\* beforeSend has returned, or there is none: the transport is called
ModSendRequest ==
  /\ pc = "beforeSend"
  /\ calls' = Append(calls, [status |-> 0, retryAfter |-> FALSE,
                             beforeSend |-> beforeSendCall,
                             onResponse |-> "no", cause |-> NoError])
  /\ pc' = "fetching"
  /\ UNCHANGED composerVars
  /\ UNCHANGED <<method, options, userSignal, currentAttempt, frame, merged,
                 fired, timers, listeners, response, delays, policy, outcome>>

\* the response returned whatever its status
replied_anyStatus(res) == Fulfilled(res)

\* what response() settles with once the transport has resolved with res
replied(res) ==
  IF ~Ok(res) THEN Rejected(ErrorWithCause(res)) ELSE Fulfilled(res)

\* the transport resolves with a response
ModFetchResolves(answer) ==
  LET r == [status |-> answer.status, headers |-> answer.headers,
            attempt |-> currentAttempt]
  IN /\ pc = "fetching"
     /\ ~merged[currentAttempt].aborted
     /\ calls' = [calls EXCEPT ![Len(calls)].status = r.status,
                               ![Len(calls)].retryAfter =
                                 "Retry-After" \in DOMAIN r.headers]
     /\ response' = r
     /\ outcome' = replied(r)
     /\ pc' = "settled"
     /\ UNCHANGED composerVars
     /\ UNCHANGED <<method, options, userSignal, currentAttempt, frame, merged,
                    fired, timers, listeners, delays, policy>>

\* the transport rejects: response() rejects with what it rejected with
ModFetchThrows(cause) ==
  /\ calls' = [calls EXCEPT ![Len(calls)].cause = cause]
  /\ outcome' = Rejected(cause)
  /\ pc' = "settled"
  /\ UNCHANGED composerVars
  /\ UNCHANGED <<method, options, userSignal, currentAttempt, frame, merged,
                 fired, timers, listeners, response, delays, policy>>

\* the transport rejects on its own
ModFetchRejects(cause) ==
  /\ pc = "fetching"
  /\ ~merged[currentAttempt].aborted
  /\ ModFetchThrows(cause)

\* the signal of the request has fired: the transport rejects with its reason
ModFetchAborted ==
  /\ pc = "fetching"
  /\ merged[currentAttempt].aborted
  /\ ModFetchThrows(merged[currentAttempt].reason)

NextMod ==
  \/ ModResponse
  \/ ModBeforeSendThrows
  \/ ModSendRequest
  \/ \E answer \in TransportResponses : ModFetchResolves(answer)
  \/ \E cause \in TransportCauses : ModFetchRejects(cause)
  \/ ModFetchAborted
  \/ \E reason \in UserReasons : UserAbort(reason)
  \/ TimeoutFires(1)

SpecMod == InitMod /\ [][NextMod]_vars

TypeOKMod ==
  /\ method \in Methods
  /\ options \in ModOptionValues
  /\ pc \in {"idle", "beforeSend", "fetching", "settled"}
  /\ currentAttempt \in 0..1
  /\ Len(merged) = currentAttempt
  /\ timers \subseteq 1..currentAttempt
  /\ listeners \subseteq Sources \X (1..currentAttempt)
  /\ outcome.state \in {"pending", "fulfilled", "rejected"}
  /\ (pc = "settled") = (outcome.state # "pending")

(***************************************************************************)
(* HttpClient: #pathname                                                   *)
(* A string is the sequence of its characters.                             *)
(***************************************************************************)
MaxPath == 3
MaxPathChars == 4

\* the characters of the string segments: white space, the separator, a
\* letter
Chars == {" ", "/", "a"}

RECURSIVE Strings(_)
Strings(n) ==
  IF n = 0 THEN {<<>>}
  ELSE Strings(n - 1)
       \cup {Append(t, c) : t \in {u \in Strings(n - 1) : Len(u) = n - 1},
                            c \in Chars}

\* a path segment: a string, a number, or undefined / null
StringSegment(text) == [type |-> "string", text |-> text, value |-> 0]
NumberSegment(value) == [type |-> "number", text |-> <<>>, value |-> value]
Undefined == [type |-> "undefined", text |-> <<>>, value |-> 0]

\* the segments of type Path, and those of type PathSegments
PathValues ==
  {StringSegment(t) : t \in Strings(MaxPathChars)}
  \cup {NumberSegment(n) : n \in {0, 42}}
PathSegmentsValues == PathValues \cup {Undefined}

\* the sequences of at most n elements of S
RECURSIVE SeqsUpTo(_, _)
SeqsUpTo(S, n) ==
  IF n = 0 THEN {<<>>}
  ELSE SeqsUpTo(S, n - 1)
       \cup {Append(q, x) : q \in {r \in SeqsUpTo(S, n - 1) : Len(r) = n - 1},
                            x \in S}

\* the characters a segment is written with
Written(segment) ==
  IF segment.type = "string" THEN Len(segment.text) ELSE 1

\* the sequences of at most n segments of S written with at most chars
\* characters in all
RECURSIVE PathsWithin(_, _, _)
PathsWithin(S, n, chars) ==
  IF n = 0 THEN {<<>>}
  ELSE {<<>>}
       \cup UNION { {<<x>> \o q : q \in PathsWithin(S, n - 1, chars - Written(x))}
                      : x \in {y \in S : Written(y) <= chars} }

\* the three HttpClient classes: the Result-returning one and the throwing
\* one of src/index.ts, and the one of src/mod.ts
ResultClient == "index.ts HttpClient (RequestBuilder)"
ThrowingClient == "index.ts HttpClient (Builder)"
ModClient == "mod.ts HttpClient"
ClientClasses == {ResultClient, ThrowingClient, ModClient}

\* the paths the type of #pathname of a class admits
Paths(class) ==
  PathsWithin(IF class = ThrowingClient THEN PathSegmentsValues ELSE PathValues,
              MaxPath, MaxPathChars)

\* String.prototype.trim
RECURSIVE trimStart(_)
trimStart(text) ==
  IF text # <<>> /\ Head(text) = " " THEN trimStart(Tail(text)) ELSE text
RECURSIVE trimEnd(_)
trimEnd(text) ==
  IF text # <<>> /\ text[Len(text)] = " "
    THEN trimEnd(SubSeq(text, 1, Len(text) - 1))
    ELSE text
trim(text) == trimEnd(trimStart(text))

startsWith(text, c) == text # <<>> /\ Head(text) = c
endsWith(text, c) == text # <<>> /\ text[Len(text)] = c

\* String(segment) of a non-negative integer
DigitChars == <<"0", "1", "2", "3", "4", "5", "6", "7", "8", "9">>
RECURSIVE NumberToString(_)
NumberToString(n) ==
  IF n < 10 THEN <<DigitChars[n + 1]>>
  ELSE NumberToString(n \div 10) \o <<DigitChars[(n % 10) + 1]>>

\* Array.prototype.join
RECURSIVE join(_, _)
join(segments, separator) ==
  IF segments = <<>> THEN <<>>
  ELSE IF Len(segments) = 1 THEN segments[1]
  ELSE segments[1] \o separator \o join(Tail(segments), separator)

\* every segment pushed, the empty ones too
push_empty(segments, segment) == Append(segments, segment)

\* if (segment.length > 0) segments.push(segment)
push(segments, segment) ==
  IF Len(segment) > 0 THEN Append(segments, segment) ELSE segments

\* the loop of #pathname from segment i on; skipsUndefined: the class has
\* the test for undefined and null at the head of the loop
RECURSIVE pathnameLoop(_, _, _, _)
pathnameLoop(p, i, segments, skipsUndefined) ==
  IF i > Len(p) THEN segments
  ELSE IF skipsUndefined /\ p[i].type = "undefined"
    THEN pathnameLoop(p, i + 1, segments, skipsUndefined)
  ELSE IF p[i].type = "number"
    THEN pathnameLoop(p, i + 1,
                      Append(segments, NumberToString(p[i].value)),
                      skipsUndefined)
  ELSE LET trimmed == trim(p[i].text)
           sliced == IF startsWith(trimmed, "/") THEN Tail(trimmed)
                                                  ELSE trimmed
           segment == IF endsWith(sliced, "/")
                        THEN SubSeq(sliced, 1, Len(sliced) - 1)
                        ELSE sliced
       IN pathnameLoop(p, i + 1, push(segments, segment), skipsUndefined)

\* HttpClient.#pathname of a class
Pathname(class, p) ==
  join(pathnameLoop(p, 1, <<>>, class = ThrowingClient), <<"/">>)

\* the variables of the Builder and of the composers while a client is
\* looked at
NoBuilderCall ==
  /\ method = "GET"
  /\ options = <<>>
  /\ userSignal = Signal(FALSE, FALSE, NoError)
  /\ pc = "idle"
  /\ currentAttempt = 0
  /\ frame = NoFrame
  /\ merged = <<>>
  /\ fired = NotFired
  /\ timers = {}
  /\ listeners = {}
  /\ calls = <<>>
  /\ response = NoResponse
  /\ delays = <<>>
  /\ policy = NoPolicy
  /\ outcome = Pending
  /\ handled = <<>>
  /\ mergeFn = "mergeAbortSignals"
  /\ signals = [s \in Sources |-> Signal(s = "timeout", FALSE, NoError)]
  /\ mergePc = "inputs"
  /\ controller = [aborted |-> FALSE, reason |-> NoError]
  /\ onAbort = {}
  /\ trace = NoTrace

\* a client of one of the classes, and the path its #pathname is called with
InitPathname ==
  /\ NoBuilderCall
  /\ client \in {[class |-> c, options |-> 0, given |-> <<>>] :
                   c \in ClientClasses}
  /\ heap = (0 :> <<>>)
  /\ builders = <<>>
  /\ path \in Paths(client.class)
  /\ pathname = NotComputed

\* #pathname(path) is called and returns
HttpClientPathname ==
  /\ pathname = NotComputed
  /\ pathname' = Pathname(client.class, path)
  /\ UNCHANGED <<client, heap, builders, path>>
  /\ UNCHANGED builderVars
  /\ UNCHANGED mergeVars

SpecPathname == InitPathname /\ [][HttpClientPathname]_vars

(***************************************************************************)
(* HttpClient: #build and the setters of the builders it returns           *)
(***************************************************************************)
MaxBuilders == 2

\* the headers option: a HeadersInit value, or a function that fills the
\* Headers it is given; entries are the headers of the value, or those the
\* function sets
HeaderEntries == [name \in {"authorization"} |-> "token"]
HeadersOptions ==
  { [form |-> f, entries |-> HeaderEntries] : f \in {"HeadersInit", "function"} }

\* the option objects a client is constructed with; only the
\* Result-returning client has a headers option
ClientOptionValues(class) ==
  { a @@ b @@ c :
      a \in Pick("baseUrl", {<<"h", ":", "/", "/", "x">>}),
      b \in Pick("timeout", {1000}),
      c \in IF class = ResultClient THEN Pick("headers", HeadersOptions)
                                    ELSE {<<>>} }

\* the paths given to get, post, put, patch and delete
BuildPaths ==
  { <<StringSegment(<<"/", "a">>), NumberSegment(42)>>,
    <<StringSegment(<<"h", ":", "/", "/", "x", "/">>), StringSegment(<<"a">>)>> }

\* what the setters of a builder are called with
SetterValues == {<<"timeout", 5000>>, <<"cache", "no-store">>}

\* an object without some of its properties
Without(object, keys) == [k \in DOMAIN object \ keys |-> object[k]]

\* new URL(pathname, baseUrl) throws a TypeError when there is no base and
\* the pathname has no scheme
HasScheme(text) == \E i \in 1..Len(text) : text[i] = ":"
CanParse(text, object) == "baseUrl" \in DOMAIN object \/ HasScheme(text)
URL(text, object) ==
  [pathname |-> text, base |-> Get(object, "baseUrl", <<>>)]

InitClient ==
  /\ NoBuilderCall
  /\ client \in {[class |-> c, options |-> 0, given |-> o] :
                   c \in ClientClasses, o \in UNION {ClientOptionValues(k) :
                                                      k \in ClientClasses}}
  /\ client.given \in ClientOptionValues(client.class)
  /\ heap = (0 :> client.given)
  /\ builders = <<>>
  /\ path = <<>>
  /\ pathname = NotComputed

\* the builder holds the client's own option object
restOptions_sameObject(ref, fresh) == ref

\* const { baseUrl, ...options } = this.#options: options is a new object;
\* the reference the builder is given
restOptions(ref, fresh) == fresh

\* the Headers #build of the Result-returning client makes: filled by the
\* function when the option is one, empty otherwise
clientHeaders(object) ==
  IF "headers" \in DOMAIN object /\ object.headers.form = "function"
    THEN object.headers.entries
    ELSE <<>>

\* the state after #build has made its builder
Built(m, p, ref, object, headers) ==
  /\ path' = p
  /\ pathname' = Pathname(client.class, p)
  /\ heap' = (ref :> object) @@ heap
  /\ builders' = Append(builders,
                        [method |-> m, url |-> URL(pathname', heap[0]),
                         headers |-> headers, options |-> ref,
                         path |-> p, made |-> object])
  /\ UNCHANGED client
  /\ UNCHANGED builderVars
  /\ UNCHANGED mergeVars

\* HttpClient.#build of the Result-returning client, called by get, post,
\* put, patch and delete: the context is a new object literal
BuildRequestBuilder(m, p) ==
  /\ client.class = ResultClient
  /\ Len(builders) < MaxBuilders
  /\ CanParse(Pathname(client.class, p), heap[client.options])
  /\ Built(m, p, Len(builders) + 1,
           Without(heap[client.options], {"baseUrl", "headers"}),
           clientHeaders(heap[client.options]))

\* HttpClient.#build of the throwing client and of src/mod.ts: the builder
\* is given the rest object and makes its own Headers
BuildBuilder(m, p) ==
  /\ client.class # ResultClient
  /\ Len(builders) < MaxBuilders
  /\ CanParse(Pathname(client.class, p), heap[client.options])
  /\ Built(m, p, restOptions(client.options, Len(builders) + 1),
           Without(heap[client.options], {"baseUrl"}), <<>>)

\* a setter of builder b: this.#options[key] = value, or
\* this.#context[key] = value
Setter(b, key, value) ==
  /\ b \in 1..Len(builders)
  /\ heap' = [heap EXCEPT ![builders[b].options] = (key :> value) @@ @]
  /\ builders' = [builders EXCEPT ![b].made = (key :> value) @@ @]
  /\ UNCHANGED <<client, path, pathname>>
  /\ UNCHANGED builderVars
  /\ UNCHANGED mergeVars

NextClient ==
  \/ \E m \in Methods, p \in BuildPaths : BuildRequestBuilder(m, p)
  \/ \E m \in Methods, p \in BuildPaths : BuildBuilder(m, p)
  \/ \E b \in 1..MaxBuilders, s \in SetterValues : Setter(b, s[1], s[2])

SpecClient == InitClient /\ [][NextClient]_vars

TypeOKClient ==
  /\ client.class \in ClientClasses
  /\ client.given \in ClientOptionValues(client.class)
  /\ Len(builders) <= MaxBuilders
  /\ \A b \in 1..Len(builders) :
       /\ builders[b].method \in Methods
       /\ builders[b].path \in BuildPaths
       /\ builders[b].options \in DOMAIN heap

(***************************************************************************)
(* Vocabulary of the properties                                            *)
(***************************************************************************)
\* the options as run() reads them
Retry == Get(options, "retry", DefaultRetry)
RetryDelay == Get(options, "retryDelay", DefaultRetryDelay)

Settled == pc = "settled"
NumCalls == Len(calls)
LastCall == calls[Len(calls)]

\* call i resolved with a response and onResponse, if any, returned
Answered(i) == i \in 1..Len(calls) /\ calls[i].status # 0
HookFailed(i) == i \in 1..Len(calls) /\ calls[i].onResponse = "threw"

\* the kind of the failure response() rejected with
FailureKind == KindOf(outcome.error)

RECURSIVE Pow2(_)
Pow2(n) == IF n = 0 THEN 1 ELSE 2 * Pow2(n - 1)

\* clamp(x, 200, 10000) as the specification writes it
Clamp(x, lo, hi) == IF x < lo THEN lo ELSE IF x > hi THEN hi ELSE x

\* the texts that are an integer number of seconds, with their value
IntegerSeconds == { <<<<"5">>, 5>>, <<<<"1", "2">>, 12>>, <<<<"-", "1">>, -1>> }

NetworkNames == {"TypeError", "NetworkError", "ConnectionRefused"}

(***************************************************************************)
(* Properties                                                              *)
(***************************************************************************)

\* C1: when the transport answers the first attempt with a status in the
\* success range, response() settles at once: exactly one transport call, no
\* backoff delay and no retry, whatever retry and retryDelay are, and (the
\* onResponse hook not failing) it resolves with that very response.
C1_SuccessOnFirstAttempt ==
  (Answered(1) /\ calls[1].status >= 200 /\ calls[1].status <= 299) =>
    /\ Settled
    /\ NumCalls = 1
    /\ currentAttempt = 1
    /\ delays = <<>>
    /\ ~HookFailed(1) =>
         /\ outcome = Fulfilled(response)
         /\ response.status = calls[1].status
         /\ response.attempt = 1

C1_Witness ==
  /\ Settled
  /\ method = "GET"
  /\ Retry >= 2
  /\ "retryDelay" \in DOMAIN options
  /\ NumCalls = 1
  /\ outcome.state = "fulfilled"
  /\ outcome.response.status = 200

\* C2: a GET request with retry = N >= 1 makes at most N transport calls,
\* in particular when every answer has a retryable status.
C2_AtMostRetryCalls ==
  (method = "GET" /\ Retry >= 1) => NumCalls <= Retry

C2_Witness ==
  /\ Settled
  /\ method = "GET"
  /\ Retry = 3
  /\ NumCalls = 3
  /\ \A i \in 1..3 : calls[i].status \in RETRY_CODE_LIST
  /\ FailureKind = "ServerFailure"

\* C3: the caller's signal firing while the transport call of attempt k is
\* in flight ends response() with an AbortFailure and no further transport
\* call, for k = 1 and for k > 1.
C3_AbortInFlight ==
  (Settled /\ fired = [by |-> "user", at |-> "fetching"]) =>
    /\ FailureKind = "AbortFailure"
    /\ NumCalls = currentAttempt

\* C4: the timeout signal of the attempt firing before the transport call
\* completes, the caller's signal not having fired, surfaces as a
\* TimeoutFailure.
C4_TimeoutInFlight ==
  (Settled /\ fired = [by |-> "timeout", at |-> "fetching"]
     /\ ~userSignal.aborted) =>
    FailureKind = "TimeoutFailure"

\* C5: a request whose method is not GET and whose answer has a retryable
\* status is never retried: exactly one transport call, and (the onResponse
\* hook not failing) a ServerFailure carrying that response, for every retry.
C5_NonGetNeverRetried ==
  (method # "GET" /\ Answered(1) /\ calls[1].status \in RETRY_CODE_LIST) =>
    /\ Settled
    /\ NumCalls = 1
    /\ delays = <<>>
    /\ ~HookFailed(1) =>
         /\ outcome = Rejected(ServerError(response))
         /\ FailureKind = "ServerFailure"
         /\ response.attempt = 1

C5_Witness ==
  /\ Settled
  /\ method = "POST"
  /\ Retry = 3
  /\ NumCalls = 1
  /\ calls[1].status = 503
  /\ FailureKind = "ServerFailure"

\* C6: when the answer of call k carries no Retry-After header, the delay
\* awaited between call k and call k + 1 is
\* clamp(retryDelay * 2^(k-1), 200, 10000).
C6_BackoffWithoutRetryAfter ==
  \A k \in 1..Len(delays) :
    ~calls[k].retryAfter =>
      delays[k] = Clamp(RetryDelay * Pow2(k - 1), 200, 10000)

C6_Witness ==
  /\ delays = <<6000, 10000>>
  /\ RetryDelay = 6000
  /\ ~calls[1].retryAfter
  /\ ~calls[2].retryAfter

\* the scenario of C7: GET, retry 3, retryDelay 100, answers 503, 503, 200
\* without a Retry-After header, no hook failing
C7_Scenario ==
  /\ method = "GET"
  /\ Retry = 3
  /\ RetryDelay = 100
  /\ NumCalls = 3
  /\ calls[1].status = 503 /\ ~calls[1].retryAfter
  /\ calls[2].status = 503 /\ ~calls[2].retryAfter
  /\ calls[3].status = 200
  /\ ~HookFailed(3)

\* C7 as stated: in the scenario the execution resolves with the 200 response
\* after three calls and two delays of about 100 ms and about 200 ms.
C7_DelaysAbout100And200 ==
  C7_Scenario =>
    /\ outcome = Fulfilled(response)
    /\ response.status = 200
    /\ Len(delays) = 2
    /\ delays[1] >= 50 /\ delays[1] <= 150
    /\ delays[2] >= 150 /\ delays[2] <= 250

\* C7 amended: in the scenario the execution resolves with the 200 response
\* of the third call after exactly three calls and two delays of 200 ms each,
\* the first one raised from 100 ms to the minimum delay.
C7_DelaysClampedToMinimum ==
  C7_Scenario =>
    /\ Settled
    /\ outcome = Fulfilled(response)
    /\ response.status = 200
    /\ response.attempt = 3
    /\ delays = <<200, 200>>

C7_Witness == C7_Scenario /\ Settled /\ outcome.state = "fulfilled"

\* C8: when the retried answer of call k carries a Retry-After header whose
\* text is an integer number of seconds s, the delay before the next attempt
\* is clamp(max(s * 1000, retryDelay * 2^(k-1)), 200, 10000); Retry-After: 5
\* on a 429 with a backoff of 100 ms gives 5000 ms, and more than 10 seconds
\* gives 10000 ms.
C8_RetryAfterOverride ==
  \A p \in IntegerSeconds :
    (pc = "delaying" /\ "Retry-After" \in DOMAIN response.headers
       /\ response.headers["Retry-After"] = p[1]) =>
      /\ Len(delays) = currentAttempt
      /\ delays[currentAttempt] =
           Clamp(Max(p[2] * 1000, RetryDelay * Pow2(currentAttempt - 1)),
                 200, 10000)
      /\ (p[2] = 5 /\ RetryDelay = 100 /\ currentAttempt = 1) =>
           delays[currentAttempt] = 5000
      /\ p[2] > 10 => delays[currentAttempt] = 10000

C8_Witness ==
  /\ pc = "delaying"
  /\ currentAttempt = 1
  /\ RetryDelay = 100
  /\ response.status = 429
  /\ "Retry-After" \in DOMAIN response.headers
  /\ response.headers["Retry-After"] = <<"5">>
  /\ delays = <<5000>>

\* the last transport call rejected with a network-class cause, or because
\* the timeout signal of its attempt fired
LastCallFailedTransiently ==
  /\ NumCalls >= 1
  /\ NumCalls = currentAttempt
  /\ \/ LastCall.cause.isError /\ LastCall.cause.name \in NetworkNames
     \/ fired = [by |-> "timeout", at |-> "fetching"]
          /\ LastCall.cause # NoError

\* C9: a transport failure of the timeout or network class on attempt n with
\* n < maxAttempts is not surfaced: the backoff delay is awaited and attempt
\* n + 1 starts.
C9_TransportFailureRetried ==
  ~(Settled /\ LastCallFailedTransiently /\ currentAttempt < Retry)

\* C10: with retry 2 and a transport that rejects every attempt with a
\* network-class cause, exactly 2 transport calls are made and then a
\* NetworkFailure is yielded.
C10_NetworkFailureAfterTwoCalls ==
  (/\ Settled
   /\ Retry = 2
   /\ NumCalls >= 1
   /\ \A i \in 1..NumCalls :
        calls[i].cause.isError /\ calls[i].cause.name \in NetworkNames) =>
    /\ NumCalls = 2
    /\ FailureKind = "NetworkFailure"

\* C11: with retry 3 on a GET request whose transport always answers 503,
\* exactly 3 transport calls are made and the execution then yields a
\* ServerFailure carrying the response of the third call.
C11_ServerFailureCarriesFinalResponse ==
  (/\ method = "GET"
   /\ Retry = 3
   /\ NumCalls = currentAttempt
   /\ NumCalls >= 1
   /\ \A i \in 1..NumCalls : calls[i].status = 503 /\ ~HookFailed(i)) =>
    /\ Settled => NumCalls = 3
    /\ NumCalls = 3 =>
         /\ Settled
         /\ outcome = Rejected(ServerError(response))
         /\ FailureKind = "ServerFailure"
         /\ response.status = 503
         /\ response.attempt = 3

C11_Witness ==
  /\ Settled
  /\ method = "GET"
  /\ Retry = 3
  /\ NumCalls = 3
  /\ \A i \in 1..3 : calls[i].status = 503
  /\ outcome.error.cls = "ServerError"
  /\ outcome.error.response.attempt = 3

(***************************************************************************)
(* Vocabulary of the signal composer properties                            *)
(***************************************************************************)
\* the sources that had fired when the composer was called
PreFired == {trace.order[i] : i \in 1..trace.composedAt}

\* the source whose firing the composed signal stands for: of the sources
\* fired at the call the timeout signal comes first; otherwise the first
\* source to fire after the call
FirstFired ==
  IF "timeout" \in PreFired THEN "timeout"
  ELSE IF "user" \in PreFired THEN "user"
  ELSE IF Len(trace.order) > trace.composedAt
    THEN trace.order[trace.composedAt + 1]
  ELSE "none"

\* the composer has just returned: no source has fired since
OnReturn == mergePc = "returned" /\ Len(trace.order) = trace.composedAt

\* C12: if a source has fired when the composer is called, the composed
\* signal is fired on return, carries the reason of a source that had
\* fired, and no listener is registered on any source.
C12_FastPath ==
  (OnReturn /\ PreFired # {}) =>
    /\ controller.aborted
    /\ controller.reason \in {signals[s].reason : s \in PreFired}
    /\ onAbort = {}

\* C13: when the composer was called with no source fired and a source
\* fires later, the composed signal fires and the composer's listeners are
\* detached from every source.
C13_ListenersDetachedFromAll ==
  (mergePc = "returned" /\ trace.composedAt = 0 /\ trace.order # <<>>) =>
    /\ controller.aborted
    /\ onAbort = {}
    /\ trace.cleanups = 1

C13_Witness ==
  /\ mergePc = "returned"
  /\ signals["user"].present
  /\ trace.composedAt = 0
  /\ Len(trace.order) = 1
  /\ ~signals["timeout"].aborted
  /\ controller.aborted
  /\ onAbort = {}

\* C14: the reason of the composed signal is the reason of the source that
\* fired first; of two sources fired at the call, the timeout's reason.
C14_ReasonOfFirstSource ==
  (mergePc = "returned" /\ FirstFired # "none") =>
    /\ controller.aborted
    /\ controller.reason = signals[FirstFired].reason

\* C15: the composed signal fires at most once, a fired composed signal
\* keeps the state and the reason it fired with, and once it has fired the
\* listeners are detached from every source, by one run of the cleanup.
C15_SingleFire ==
  /\ trace.events <= 1
  /\ trace.cleanups <= 1
  /\ controller.aborted = (trace.events = 1)
  /\ controller.reason = trace.reason
  /\ controller.aborted => onAbort = {}

\* what response() settles with when attempt 1 is the only attempt: the
\* result of that attempt alone, whatever the retry option
SingleAttemptOutcome ==
  IF NumCalls = 0 THEN Rejected(HookError)
  ELSE IF calls[1].cause # NoError THEN Rejected(handleError(calls[1].cause))
  ELSE IF HookFailed(1) THEN Rejected(handleError(HookError))
  ELSE IF Ok(response) THEN Fulfilled(response)
  ELSE Rejected(ServerError(response))

C17_EveryFailureClassified ==
  Settled =>
    \/ outcome.state = "fulfilled"
    \/ /\ outcome.state = "rejected"
       /\ FailureKind \in {"ServerFailure", "AbortFailure", "TimeoutFailure",
                           "NetworkFailure", "UnknownFailure"}

\* transport call i has resolved or rejected
Completed(i) == calls[i].status # 0 \/ calls[i].cause # NoError
\* the transport calls in flight
InFlight == {i \in 1..NumCalls : ~Completed(i)}

\* C18: attempts are sequential.  A transport call is started only when
\* every earlier call has resolved or rejected and the backoff delay after
\* each of them has elapsed; the next attempt is entered only from the end
\* of the backoff delay that follows the completed call of the current one;
\* at most one transport call is in flight.
C18_AttemptsSequential ==
  [][/\ NumCalls' # NumCalls =>
          /\ NumCalls' = NumCalls + 1
          /\ pc = "beforeSend"
          /\ currentAttempt = NumCalls + 1
          /\ Len(delays) = NumCalls
          /\ \A i \in 1..NumCalls : Completed(i)
     /\ (currentAttempt' # currentAttempt /\ currentAttempt >= 1) =>
          /\ currentAttempt' = currentAttempt + 1
          /\ pc = "delaying"
          /\ NumCalls = currentAttempt
          /\ Len(delays) = currentAttempt
          /\ Completed(currentAttempt)
     /\ Cardinality(InFlight') <= 1]_vars

C18_Witness ==
  /\ pc = "fetching"
  /\ currentAttempt = 2
  /\ NumCalls = 2
  /\ Len(delays) = 1
  /\ Completed(1)
  /\ InFlight = {2}

\* C19: the timeout timer armed for an attempt is cleared when the
\* transport call of that attempt resolves or rejects: a timer still armed
\* belongs to an attempt whose call is not made yet or is in flight.
C19_TimerClearedAfterCall ==
  \A a \in timers : a > NumCalls \/ a \in InFlight

\* C20: when response() has settled, no timeout timer is armed and no
\* listener of a composer is attached to the caller's signal.
C20_NothingLeftBehind ==
  Settled =>
    /\ timers = {}
    /\ \A a \in 1..currentAttempt : <<"user", a>> \notin listeners

\* the Retry-After texts that are not an integer number of seconds: an HTTP
\* date, digits followed by other text, the empty text
NotIntegerTexts == RetryAfterTexts \ {p[1] : p \in IntegerSeconds}

\* C21: when the Retry-After text of the answer of call k is not an integer
\* number of seconds, it is ignored: the delay awaited is
\* clamp(retryDelay * 2^(k-1), 200, 10000).
C21_UnparsableRetryAfterIgnored ==
  \A text \in NotIntegerTexts :
    (pc = "delaying" /\ "Retry-After" \in DOMAIN response.headers
       /\ response.headers["Retry-After"] = text) =>
      /\ Len(delays) = currentAttempt
      /\ delays[currentAttempt] =
           Clamp(RetryDelay * Pow2(currentAttempt - 1), 200, 10000)

\* C22: a GET answer whose status is neither in the success range nor in
\* the retryable set is surfaced as a ServerFailure carrying that response
\* as soon as it occurs, whatever retry is: no delay and no call follows
\* it, and on the first attempt exactly one transport call was made.
C22_NonRetryableStatusSurfaced ==
  \A i \in 1..NumCalls :
    (/\ method = "GET"
     /\ Answered(i)
     /\ ~HookFailed(i)
     /\ ~(calls[i].status >= 200 /\ calls[i].status <= 299)
     /\ calls[i].status \notin {408, 409, 425, 429, 500, 502, 503, 504}) =>
      /\ Settled
      /\ NumCalls = i
      /\ Len(delays) = i - 1
      /\ outcome = Rejected(ServerError(response))
      /\ FailureKind = "ServerFailure"
      /\ response.status = calls[i].status
      /\ response.attempt = i

C22_Witness ==
  /\ Settled
  /\ method = "GET"
  /\ Retry = 3
  /\ NumCalls = 1
  /\ calls[1].status = 404
  /\ delays = <<>>
  /\ outcome.error.cls = "ServerError"
  /\ outcome.error.response.status = 404

\* C23: the policy of one call of response() is the one read when the call
\* starts, whatever setters are called during it: the number of transport
\* calls stays within that retry value and every delay not overridden by a
\* Retry-After header is the backoff of that retryDelay.
C23_PolicyFixedAtCallStart ==
  currentAttempt >= 1 =>
    /\ NumCalls <= Max(1, policy.retry)
    /\ frame.retry = policy.retry
    /\ frame.retryDelay = policy.retryDelay
    /\ \A k \in 1..Len(delays) :
         ~calls[k].retryAfter =>
           delays[k] = Clamp(policy.retryDelay * Pow2(k - 1), 200, 10000)

(***************************************************************************)
(* Properties of tryRequest                                                *)
(***************************************************************************)
\* C24: when the caller's signal fires during the transport call of an
\* attempt of tryRequest, whatever the reason given, that attempt is the
\* last: no delay is awaited and no transport call is made after it, and
\* the call returns a failure.
C24_CallerAbortNotRetried ==
  fired = [by |-> "user", at |-> "fetching"] =>
    /\ pc \in {"fetching", "settled"}
    /\ NumCalls = currentAttempt
    /\ Len(delays) = currentAttempt - 1
    /\ Settled => outcome.state = "failure"

\* the retryDelay tryRequest reads from its context
ContextRetryDelay == Get(options, "retryDelay", DefaultContextRetryDelay)

\* C30: in tryRequest the delay awaited between attempt n and attempt n + 1
\* on the timeout and network retry paths is
\* clamp(retryDelay * 2^(n-1), 200, 10000).
C30_ContextBackoffClamped ==
  \A n \in 1..Len(delays) :
    delays[n] = Clamp(ContextRetryDelay * Pow2(n - 1), 200, 10000)

(***************************************************************************)
(* Properties of Builder.response, continued                               *)
(***************************************************************************)
\* the kind the attempt of the last transport call gave to its failure
KindOnAttempt == KindOf(handleError(LastCall.cause))

\* C25: when the transport call of the last attempt rejects and the catch of
\* that attempt classifies the cause as AbortFailure, TimeoutFailure or
\* NetworkFailure, response() rejects with a failure of that kind, also
\* when the attempt is not the first.
C25_KindKeptThroughFrames ==
  (/\ Settled
   /\ NumCalls >= 1
   /\ NumCalls = currentAttempt
   /\ LastCall.cause # NoError
   /\ KindOnAttempt \in {"AbortFailure", "TimeoutFailure", "NetworkFailure"}) =>
    /\ outcome.state = "rejected"
    /\ FailureKind = KindOnAttempt

\* the caller's signal fired during the backoff delay before the current
\* attempt: the attempt found it fired when it merged its signals
AbortedDuringDelay ==
  currentAttempt >= 2 /\ fired = [by |-> "user", at |-> "compose"]

\* C26: when the caller's signal fires during the backoff delay, the delay
\* runs to its end and the next attempt starts with a composed signal that
\* has fired; its transport call rejects, the failure is an AbortFailure,
\* and no further attempt is made.
C26_AbortDuringDelay ==
  AbortedDuringDelay =>
    /\ merged[currentAttempt].aborted
    /\ Len(delays) = currentAttempt - 1
    /\ pc \in {"beforeSend", "fetching", "settled"}
    /\ (Settled /\ NumCalls = currentAttempt) =>
         /\ LastCall.cause = DOMAbortError
         /\ outcome.state = "rejected"
         /\ FailureKind = "AbortFailure"

(***************************************************************************)
(* Properties of tryRequest, continued                                     *)
(***************************************************************************)
\* C27: every attempt has a timeout signal and a composed signal of its
\* own: the composed signal of an attempt has fired only if the timer set at
\* the start of that attempt has run or the caller's signal has fired.  An
\* attempt that follows one ended by its timeout starts with an unfired
\* composed signal unless the caller's signal has fired.
C27_FreshSignalPerAttempt ==
  \A k \in 1..currentAttempt :
    merged[k].aborted => (userSignal.aborted \/ k \notin timers)

C27_Witness ==
  /\ pc = "fetching"
  /\ currentAttempt = 2
  /\ merged[1].aborted
  /\ merged[1].reason = String(TIMEOUT_MESSAGE)
  /\ calls[1].cause = String(TIMEOUT_MESSAGE)
  /\ ~userSignal.aborted
  /\ 2 \in timers
  /\ ~merged[2].aborted

(***************************************************************************)
(* Properties of Builder.#handleError                                      *)
(***************************************************************************)
\* the kind the specification gives to a cause that is not a ServerError
KindOfCause(error) ==
  IF error.isError /\ error.name = "AbortError" THEN "AbortFailure"
  ELSE IF error.isError /\ error.name = "TimeoutError" THEN "TimeoutFailure"
  ELSE IF error.isError
          /\ error.name \in {"NetworkError", "ConnectionRefused", "TypeError"}
    THEN "NetworkFailure"
  ELSE "UnknownFailure"

\* the first result has the kind of the table
C28_TableHolds ==
  Len(handled) >= 2 =>
    IF handled[1].cls = "ServerError"
      THEN handled[2] = handled[1]
      ELSE KindOf(handled[2]) = KindOfCause(handled[1])

\* C28: #handleError gives every cause one kind: a ServerError is returned
\* unchanged, other causes get the kind of their name, values that are not
\* errors and other names get UnknownFailure; and classifying a classified
\* failure gives a failure of the same kind.
C28_ClassificationTotalAndStable ==
  /\ C28_TableHolds
  /\ Len(handled) >= 3 => KindOf(handled[3]) = KindOf(handled[2])

(***************************************************************************)
(* Termination of Builder.response                                         *)
(***************************************************************************)
\* C29: whatever the retry value and whatever the transport calls resolve
\* or reject with, response() eventually settles, and it makes at most
\* max(1, retry) transport calls and awaits at most max(0, retry - 1)
\* backoff delays.
C29_Terminates ==
  /\ [](/\ NumCalls <= Max(1, Retry)
        /\ Len(delays) <= Max(0, Retry - 1))
  /\ <>Settled

C29_Witness ==
  /\ Settled
  /\ Retry = MaxRetry
  /\ NumCalls = MaxRetry
  /\ Len(delays) = MaxRetry - 1
  /\ outcome.state = "fulfilled"

(***************************************************************************)
(* The hooks of Builder.response                                           *)
(***************************************************************************)
\* the hooks the builder was given
HasOnResponse == "onResponse" \in DOMAIN options
HasBeforeSend == "beforeSend" \in DOMAIN options

\* C31: onResponse is called once with the response of every transport call
\* that resolved, whatever its status, before the response is returned,
\* retried or turned into a ServerFailure (a hook that throws ends the call
\* with no decision taken); it is not called for a transport call that
\* rejected or is in flight.
C31_OnResponsePerResponse ==
  \A i \in 1..NumCalls :
    /\ (HasOnResponse /\ calls[i].status # 0) =>
         calls[i].onResponse \in {"returned", "threw"}
    /\ (~HasOnResponse \/ calls[i].status = 0) => calls[i].onResponse = "no"
    /\ HookFailed(i) =>
         /\ NumCalls = i
         /\ Len(delays) = i - 1
         /\ Settled
         /\ outcome.state = "rejected"

C31_Witness ==
  /\ Settled
  /\ HasOnResponse
  /\ NumCalls = 3
  /\ calls[1].status = 503 /\ calls[1].onResponse = "returned"
  /\ calls[2].status = 429 /\ calls[2].onResponse = "returned"
  /\ calls[3].status = 0 /\ calls[3].cause # NoError
  /\ calls[3].onResponse = "no"

\* C32: beforeSend is called and awaited once in every attempt, the first
\* and every retry, before the transport call of that attempt: every
\* transport call was preceded by the hook of its attempt returning, and
\* while the hook of an attempt is pending, or after it threw, no transport
\* call of that attempt exists.
C32_BeforeSendPerAttempt ==
  /\ \A i \in 1..NumCalls :
       calls[i].beforeSend = IF HasBeforeSend THEN "returned" ELSE "no"
  /\ NumCalls <= currentAttempt
  /\ pc = "beforeSend" => NumCalls = currentAttempt - 1
  /\ pc \in {"fetching", "delaying"} => NumCalls = currentAttempt

C32_Witness ==
  /\ HasBeforeSend
  /\ pc = "beforeSend"
  /\ currentAttempt = 3
  /\ NumCalls = 2
  /\ calls[1].beforeSend = "returned"
  /\ calls[2].beforeSend = "returned"

(***************************************************************************)
(* Properties of tryRequest, continued                                     *)
(***************************************************************************)
\* C33: tryRequest never rejects on a transport outcome.  Once the call has
\* settled it has resolved with a Result, which is one of: success with the
\* response of the last transport call, whose status is ok; failure with
\* SERVER_ERROR and the response of the last transport call, whose status
\* is not ok (no call before it was answered and no call follows it); or
\* failure with CLIENT_ERROR and a message, the last transport call having
\* rejected.
C33_AlwaysAResult ==
  /\ outcome.state \in {"pending", "success", "failure"}
  /\ Settled =>
       /\ outcome.state # "pending"
       /\ NumCalls = currentAttempt
       /\ \A i \in 1..(NumCalls - 1) : calls[i].status = 0
       /\ outcome.state = "success" =>
            /\ outcome.response = response
            /\ Ok(response)
            /\ response.attempt = NumCalls
            /\ LastCall.status = response.status
       /\ outcome.state = "failure" =>
            \/ /\ outcome.error.cls = "SERVER_ERROR"
               /\ outcome.error.response = response
               /\ response # NoResponse
               /\ ~Ok(response)
               /\ response.attempt = NumCalls
               /\ LastCall.status = response.status
            \/ /\ outcome.error.cls = "CLIENT_ERROR"
               /\ outcome.error.response = NoResponse
               /\ outcome.error.text \in Seq(STRING)
               /\ LastCall.status = 0
               /\ LastCall.cause # NoError

C33_Witness ==
  /\ Settled
  /\ NumCalls = 2
  /\ calls[1].cause.cls = "TypeError"
  /\ outcome.state = "failure"
  /\ outcome.error.cls = "SERVER_ERROR"
  /\ outcome.error.response.status = 503

(***************************************************************************)
(* Properties of Builder.response of src/mod.ts                            *)
(***************************************************************************)
\* the call never makes a second transport call and never awaits a delay
NoRetryNoDelay == NumCalls <= 1 /\ currentAttempt <= 1 /\ delays = <<>>

\* what the call settles with after its transport call resolved
SettledOnStatus ==
  (Settled /\ NumCalls = 1 /\ LastCall.status # 0) =>
    /\ LastCall.status = response.status
    /\ Ok(response) => outcome = Fulfilled(response)
    /\ ~Ok(response) =>
         /\ outcome.state = "rejected"
         /\ outcome.error.cls = "Error"
         /\ outcome.error.response = response

\* C34 as stated: every invocation of response() of src/mod.ts makes exactly
\* one transport call; it returns the response when the status is ok,
\* rejects with an Error whose cause is the response when it is not, and
\* never retries or delays.
C34_ExactlyOneCall ==
  /\ NoRetryNoDelay
  /\ Settled => NumCalls = 1
  /\ SettledOnStatus

\* C34, amended: every invocation of response() of src/mod.ts makes at most
\* one transport call, and exactly one once beforeSend, if any, has
\* returned; a call that settles without a transport call has a beforeSend
\* hook and rejects with what the hook threw.  It returns the response when
\* the status is ok, rejects with an Error whose cause is the response when
\* it is not, and never retries or delays.
C34_OneCallAfterBeforeSend ==
  /\ NoRetryNoDelay
  /\ pc = "fetching" => NumCalls = 1
  /\ pc = "beforeSend" => NumCalls = 0
  /\ Settled =>
       \/ NumCalls = 1
       \/ NumCalls = 0 /\ HasBeforeSend /\ outcome = Rejected(HookError)
  /\ SettledOnStatus

C34_Witness ==
  /\ Settled
  /\ HasBeforeSend
  /\ NumCalls = 1
  /\ LastCall.status = 503
  /\ outcome.state = "rejected"
  /\ outcome.error.response.status = 503

(***************************************************************************)
(* Properties of HttpClient.#pathname                                      *)
(***************************************************************************)
\* the least and the greatest element of a non-empty set of numbers
Least(S) == CHOOSE x \in S : \A y \in S : x <= y
Greatest(S) == CHOOSE x \in S : \A y \in S : x >= y

\* the number a text of digits stands for in base ten
RECURSIVE BaseTen(_)
BaseTen(text) ==
  IF text = <<>> THEN 0
  ELSE 10 * BaseTen(SubSeq(text, 1, Len(text) - 1))
       + (CHOOSE d \in 0..9 : DigitChars[d + 1] = text[Len(text)])

IsDecimal(text) ==
  /\ text # <<>>
  /\ \A i \in 1..Len(text) : \E d \in 0..9 : DigitChars[d + 1] = text[i]
  /\ Len(text) > 1 => text[1] # "0"

\* a text without the white space at its ends
WithoutOuterSpace(text) ==
  LET inked == {i \in 1..Len(text) : text[i] # " "}
  IN IF inked = {} THEN <<>>
     ELSE SubSeq(text, Least(inked), Greatest(inked))

\* a text without one "/" at its head and one at its end, if it has them
WithoutOuterSlash(text) ==
  LET from == IF text # <<>> /\ text[1] = "/" THEN 2 ELSE 1
      to == IF Len(text) >= from /\ text[Len(text)] = "/"
              THEN Len(text) - 1 ELSE Len(text)
  IN SubSeq(text, from, to)

\* what a segment contributes to the pathname; nothing when it is empty
Contribution(segment) ==
  IF segment.type = "undefined" THEN <<>>
  ELSE IF segment.type = "number"
    THEN CHOOSE text \in SeqsUpTo({DigitChars[d] : d \in 1..10}, 2) :
           IsDecimal(text) /\ BaseTen(text) = segment.value
  ELSE WithoutOuterSlash(WithoutOuterSpace(segment.text))

\* the contributions of the segments of p up to the i-th, each non-empty
\* one followed by "/"
RECURSIVE Laid(_, _)
Laid(p, i) ==
  IF i = 0 THEN <<>>
  ELSE Laid(p, i - 1)
       \o (IF Contribution(p[i]) = <<>> THEN <<>>
           ELSE Contribution(p[i]) \o <<"/">>)

\* C37: the pathname is the "/"-join, in order, of the decimal text of each
\* numeric segment and of each string segment trimmed of white space and
\* then of at most one leading and one trailing "/"; empty, undefined and
\* null segments are left out, so that no "/" stands at the head or at the
\* end of the pathname, or next to another, for a segment boundary.
C37_PathnameIsJoin ==
  pathname # NotComputed =>
    LET laid == Laid(path, Len(path))
        kept == {i \in 1..Len(path) : Contribution(path[i]) # <<>>}
    IN /\ pathname \o (IF kept = {} THEN <<>> ELSE <<"/">>) = laid
       /\ kept = {} => pathname = <<>>
       /\ kept # {} =>
            /\ pathname # <<>>
            /\ Head(pathname) = Head(Contribution(path[Least(kept)]))
            /\ pathname[Len(pathname)] =
                 LET last == Contribution(path[Greatest(kept)])
                 IN last[Len(last)]

C37_Witness ==
  /\ pathname = <<"a", "/", "4", "2">>
  /\ path = <<StringSegment(<<" ", "/", "a">>), StringSegment(<<>>),
              NumberSegment(42)>>

(***************************************************************************)
(* Properties of HttpClient.#build                                         *)
(***************************************************************************)
\* C35: the setters of a builder change the options of that builder only:
\* the option object of the client holds what the client was given, the
\* option object of every builder holds what the builder was made with and
\* what its own setters have set, and no two of these objects are the same.
C35_BuildersIsolated ==
  /\ client.class # "none" => heap[client.options] = client.given
  /\ \A b \in 1..Len(builders) :
       /\ heap[builders[b].options] = builders[b].made
       /\ builders[b].options # client.options
       /\ \A c \in 1..Len(builders) :
            c # b => builders[c].options # builders[b].options

C35_Witness ==
  /\ Len(builders) = 2
  /\ heap[client.options] = client.given
  /\ "timeout" \in DOMAIN client.given
  /\ heap[builders[1].options].timeout = 5000
  /\ heap[builders[2].options].timeout = 1000
  /\ "cache" \notin DOMAIN heap[builders[1].options]
  /\ "cache" \in DOMAIN heap[builders[2].options]

\* C36: every builder made by the Result-returning client carries the
\* headers the client was configured with, whether they were given as a
\* HeadersInit value or as a function that fills a Headers object.
C36_ClientHeadersOnEveryRequest ==
  (client.class = ResultClient /\ "headers" \in DOMAIN client.given) =>
    \A b \in 1..Len(builders) :
      \A name \in DOMAIN client.given.headers.entries :
        /\ name \in DOMAIN builders[b].headers
        /\ builders[b].headers[name] = client.given.headers.entries[name]

====
